---- MODULE Spec2Model ----
(***************************************************************************)
(* Moderation gating and turn orchestration of the multimodal trainer:     *)
(* gradio_app.py (check_content_safety, ChatSessionWithTracing and the     *)
(* Gradio wiring of create_chat_interface).                                *)
(*                                                                         *)
(* A MIME type "image/png" is the tuple <<"image", "png">>, so that        *)
(* mime_type.split("/")[0] is Head.  A feedback string is the tuple of the *)
(* pieces the code concatenates.                                           *)
(***************************************************************************)
EXTENDS Integers, Sequences, FiniteSets, TLC

VARIABLES
    conversation_span,    \* number of end() calls received by the root span
    past_messages_state,  \* gr.State: the history kept between turns
    turnNo,               \* number of turns started on the session
    pc,                   \* position of the turn in chat_with_gemini
    message,              \* argument of the turn in progress
    past_messages,        \* argument of the turn in progress
    k,                    \* index of the message key being iterated
    j,                    \* index of the file being iterated
    prompt_parts,         \* local of chat_with_gemini
    safety_message,       \* local of chat_with_gemini
    ret,                  \* what the turn returned or raised
    checkLog,             \* check_content_safety calls of the turn, in order
    reqLog,               \* parts for which requests.post was called, in order
    agentCalls,           \* customer_agent.run calls of the turn
    gateIn,               \* arguments of a lone check_content_safety call
    gateOut,              \* outcome of that call
    session_id,           \* self.session_id
    spans,                \* spans opened by the turn in progress, in order
    turn_mime_type,       \* local mime_type of chat_with_gemini
    disk,                 \* content of the file being added, since its check
    readLog,              \* bytes read into the prompt by the turn, in order
    lastOutcome           \* "gating_failure" when the previous turn ended so

vars == <<conversation_span, past_messages_state, turnNo,
          pc, message, past_messages, k, j, prompt_parts, safety_message,
          ret, checkLog, reqLog, agentCalls, gateIn, gateOut,
          session_id, spans, turn_mime_type, disk, readLog, lastOutcome>>

turnVars == <<pc, message, past_messages, k, j, prompt_parts, safety_message,
              ret, checkLog, reqLog, agentCalls, spans, turn_mime_type, disk, readLog>>

----------------------------------------------------------------------------
(* Bounds *)

MaxTurns == 2
MaxFiles == 2
MaxEnds == 2

----------------------------------------------------------------------------
(* Constants of the program *)

MAX_FILE_SIZE_MB == 5
MAX_FILE_SIZE_BYTES == MAX_FILE_SIZE_MB * 1024 * 1024

AllFlags == {"is_unfriendly", "is_unprofessional", "contains_pii",
             "is_disturbing", "is_low_quality"}

MODERATION_CONFIG ==
    [text  |-> [endpoint |-> "/api/v1/moderate_text",
                unsafe_flags |-> <<"is_unfriendly", "is_unprofessional", "contains_pii">>],
     image |-> [endpoint |-> "/api/v1/moderate_image_file",
                unsafe_flags |-> <<"contains_pii", "is_disturbing", "is_low_quality">>],
     video |-> [endpoint |-> "/api/v1/moderate_video_file",
                unsafe_flags |-> <<"contains_pii", "is_disturbing", "is_low_quality">>],
     audio |-> [endpoint |-> "/api/v1/moderate_audio_file",
                unsafe_flags |-> <<"is_unfriendly", "is_unprofessional", "contains_pii">>]]

PromptHeader == "This is the next message from the support agent:"
BlockedReply == "[Content blocked by moderation]"
FlaggedPrefix == "(warning) Content flagged: "

----------------------------------------------------------------------------
(* Inputs: texts, files on disk, messages, responses of the remote check *)

NoText == "None"
Texts == {"", "hello"}

NoMime == <<>>

\* A file: what its content is detected as (NoMime: not identifiable) and
\* its size in bytes.
NoFile == [name |-> "None", mime |-> NoMime, size |-> 0]
Files ==
    {[name |-> "a.png",  mime |-> <<"image", "png">>, size |-> MAX_FILE_SIZE_BYTES - 1],
     [name |-> "b.mp4",  mime |-> <<"video", "mp4">>, size |-> MAX_FILE_SIZE_BYTES],
     [name |-> "c.wav",  mime |-> <<"audio", "wav">>, size |-> MAX_FILE_SIZE_BYTES - 1],
     [name |-> "d.png",  mime |-> <<"image", "png">>, size |-> MAX_FILE_SIZE_BYTES + 1],
     [name |-> "e.pdf",  mime |-> <<"application", "pdf">>, size |-> MAX_FILE_SIZE_BYTES],
     [name |-> "f.pdf",  mime |-> <<"application", "pdf">>, size |-> MAX_FILE_SIZE_BYTES + 1],
     [name |-> "g.bin",  mime |-> NoMime, size |-> MAX_FILE_SIZE_BYTES - 1]}

\* The files a message is made of: a file that is sent at the size limit, an
\* audio file, a file above the limit, and a file of an unsupported type at
\* and above the limit.
TurnFiles == {f \in Files : f.name \in {"b.mp4", "c.wav", "d.png", "e.pdf", "f.pdf"}}

FileSeqs == UNION {[1..n -> TurnFiles] : n \in 0..MaxFiles}

\* The message dict of a turn: its keys in iteration order and their values.
Messages == [keys : {<<"text", "files">>, <<"files", "text">>},
             text : Texts, files : FileSeqs]

\* A response of the remote check: no response at all (network error), a
\* non-success status, a body that is not JSON, or a JSON object in which
\* each flag is true ("T"), false ("F") or absent ("-").
FlagValues == {"T", "F", "-"}
Responses ==
    [kind : {"neterr", "http_error", "badjson", "ok"},
     flags : [AllFlags -> FlagValues],
     rationale : BOOLEAN, transcription : BOOLEAN]

AllF == [f \in AllFlags |-> "F"]

\* The responses a whole response is drawn from: one representative of each
\* failure, and every JSON object.
GateResponses ==
    {r \in Responses : r.kind # "ok" =>
        (r.flags = AllF /\ r.rationale /\ ~r.transcription)}

\* The responses drawn during a turn: the failures, a JSON object without
\* rationale, and the JSON objects in which at most one flag is true and at
\* most one is absent (a transcription comes with all flags false).
TurnResponses ==
    {r \in GateResponses :
        /\ ~r.rationale => (r.flags = AllF /\ ~r.transcription)
        /\ r.transcription => r.flags = AllF
        /\ \E a, b \in AllFlags :
              /\ r.flags[a] \in {"T", "F"}
              /\ r.flags[b] \in {"-", "F"}
              /\ \A f \in AllFlags \ {a, b} : r.flags[f] = "F"}

----------------------------------------------------------------------------
(* Moderation helpers *)

\* Outcome of a helper call: the tuple it returns, or the exception it
\* raises; sent tells whether requests.post was called.
CallOk(result, feedback, content_type, mime_type) ==
    [status |-> "ok", err |-> "", sent |-> TRUE, result |-> result,
     feedback |-> feedback, content_type |-> content_type, mime_type |-> mime_type]

CallRaise(err, sent) ==
    [status |-> "raise", err |-> err, sent |-> sent, result |-> AllF,
     feedback |-> <<>>, content_type |-> "", mime_type |-> NoMime]

\* requests.post followed by the response.ok test and response.json().
HttpError(resp) ==
    CASE resp.kind = "neterr"     -> "ConnectionError"
      [] resp.kind = "http_error" -> "RuntimeError"
      [] resp.kind = "badjson"    -> "JSONDecodeError"
      [] OTHER                    -> ""

Rationale(resp) == <<"rationale">>

call_text_moderation(text, resp) ==
    IF HttpError(resp) # "" THEN CallRaise(HttpError(resp), TRUE)
    ELSE IF ~resp.rationale THEN CallRaise("KeyError", TRUE)
    ELSE CallOk(resp.flags, Rationale(resp), "text", <<"text", "plain">>)

\* detect_file_type: the MIME type of the file's content, or a failure when
\* the content is not identifiable.
detect_file_type(media) ==
    IF media.mime = NoMime THEN [status |-> "raise", mime_type |-> NoMime]
    ELSE [status |-> "ok", mime_type |-> media.mime]

SizeExceeds_Geq(file_size) == file_size >= MAX_FILE_SIZE_BYTES

SizeExceeds(file_size) == file_size > MAX_FILE_SIZE_BYTES

AudioFeedback_AnyType(content_type, resp, feedback) ==
    IF resp.transcription
    THEN <<"Transcription: \"", "transcription", "\"", "\n\n">> \o feedback
    ELSE feedback

\* f"Transcription: \"{result['transcription']}\"\n\n{feedback}"
AudioFeedback(content_type, resp, feedback) ==
    IF content_type = "audio" /\ resp.transcription
    THEN <<"Transcription: \"", "transcription", "\"", "\n\n">> \o feedback
    ELSE feedback

call_media_moderation(media, resp) ==
    LET detected == detect_file_type(media)
        mime_type == detected.mime_type
        content_type == Head(mime_type)
    IN  IF detected.status = "raise" THEN CallRaise("ClassificationError", FALSE)
        ELSE IF SizeExceeds(media.size) THEN CallRaise("ValueError: File too large", FALSE)
        ELSE IF content_type \notin DOMAIN MODERATION_CONFIG THEN CallRaise("KeyError", FALSE)
        ELSE IF HttpError(resp) # "" THEN CallRaise(HttpError(resp), TRUE)
        ELSE IF ~resp.rationale THEN CallRaise("KeyError", TRUE)
        ELSE CallOk(resp.flags, AudioFeedback(content_type, resp, Rationale(resp)),
                    content_type, mime_type)

FlagLoop_FirstOnly(result, flags) ==
    IF flags = <<>> THEN "safe"
    ELSE IF result[Head(flags)] = "-" THEN "KeyError"
    ELSE IF result[Head(flags)] = "T" THEN "unsafe"
    ELSE "safe"

\* The loop over the configured flags: "unsafe" at the first true flag,
\* "KeyError" at a flag the result lacks, "safe" when the loop ends.
RECURSIVE FlagLoop(_, _)
FlagLoop(result, flags) ==
    IF flags = <<>> THEN "safe"
    ELSE IF result[Head(flags)] = "-" THEN "KeyError"
    ELSE IF result[Head(flags)] = "T" THEN "unsafe"
    ELSE FlagLoop(result, Tail(flags))

Verdict(status, err, is_safe, feedback, mime_type, sent) ==
    [status |-> status, err |-> err, is_safe |-> is_safe,
     feedback |-> feedback, mime_type |-> mime_type, sent |-> sent]

check_content_safety(text, media, resp) ==
    LET call == IF text # NoText THEN call_text_moderation(text, resp)
                ELSE IF media # NoFile THEN call_media_moderation(media, resp)
                ELSE CallRaise("ValueError: Must provide text or media", FALSE)
        loop == FlagLoop(call.result, MODERATION_CONFIG[call.content_type].unsafe_flags)
    IN  IF call.status = "raise"
        THEN Verdict("raise", call.err, FALSE, <<>>, NoMime, call.sent)
        ELSE IF loop = "KeyError"
        THEN Verdict("raise", "KeyError", FALSE, <<>>, NoMime, call.sent)
        ELSE Verdict("ok", "", loop = "safe", call.feedback, call.mime_type, call.sent)

----------------------------------------------------------------------------
(* Chat session *)

\* A part handed to check_content_safety.
TextPart(value) == [kind |-> "text", text |-> value, file |-> NoFile]
MediaPart(file_path) == [kind |-> "media", text |-> "", file |-> file_path]

\* A segment of the prompt: a string, or a BinaryContent holding the bytes
\* of a file and a media type.
TextSegment(value) ==
    [kind |-> "text", text |-> value, file |-> NoFile, media_type |-> NoMime]
BinaryContent(data, media_type) ==
    [kind |-> "binary", text |-> "", file |-> data, media_type |-> media_type]

NoRet == [status |-> "none", reply |-> "", history |-> <<>>, feedback |-> <<>>, err |-> ""]
Returned(reply, history, feedback) ==
    [status |-> "returned", reply |-> reply, history |-> history,
     feedback |-> feedback, err |-> ""]
Raised(err) ==
    [status |-> "raised", reply |-> "", history |-> <<>>, feedback |-> <<>>, err |-> err]

\* What the remote check answered to a request, as far as the turn is
\* concerned: nothing, a non-success status, a body that is not JSON, a JSON
\* object without rationale, one without a flag configured for the part's
\* content type, or a complete JSON object.
ConfiguredFlags(part) ==
    LET content_type == IF part.kind = "text" THEN "text" ELSE Head(part.file.mime)
        flags == MODERATION_CONFIG[content_type].unsafe_flags
    IN  {flags[i] : i \in 1..Len(flags)}

Answer(part, sent, resp) ==
    IF ~sent THEN "none"
    ELSE IF resp.kind # "ok" THEN resp.kind
    ELSE IF ~resp.rationale THEN "no_rationale"
    ELSE IF \E f \in ConfiguredFlags(part) : resp.flags[f] = "-" THEN "no_flag"
    ELSE "json"

LogEntry(part, v, resp) ==
    [part |-> part,
     verdict |-> IF v.status = "raise" THEN "raised"
                 ELSE IF v.is_safe THEN "safe" ELSE "unsafe",
     sent |-> v.sent,
     answer |-> Answer(part, v.sent, resp),
     feedback |-> v.feedback]

\* ChatSessionWithTracing.__init__
NewSession == [isNone |-> FALSE, end_calls |-> 0]

NoGateIn == [part |-> TextPart(""), resp |-> CHOOSE r \in GateResponses : r.kind = "neterr"]
NoGateOut == Verdict("none", "", FALSE, <<>>, NoMime, FALSE)

\* A span: its name, the span it is nested under, and whether it has ended.
\* A check span is started as moderate_text and renamed after the content
\* type; it is "moderate" here.
RootSpan == "conversation"
Span(name, parent, ended) == [name |-> name, parent |-> parent, ended |-> ended]

TurnSpanParent_Ambient == "none"

\* context=trace.set_span_in_context(self.conversation_span)
TurnSpanParent == RootSpan

CloseOnExit_Leak(opened) == opened

\* Leaving the with blocks of the turn ends every span they started.
CloseOnExit(opened) == [i \in DOMAIN opened |-> [opened[i] EXCEPT !.ended = TRUE]]

NoMessage == [keys |-> <<"text", "files">>, text |-> "", files |-> <<>>]

\* No turn is in progress.
TurnInit ==
    /\ pc = "idle"
    /\ message = NoMessage
    /\ past_messages = <<>>
    /\ k = 1
    /\ j = 1
    /\ prompt_parts = <<>>
    /\ safety_message = <<>>
    /\ ret = NoRet
    /\ checkLog = <<>>
    /\ reqLog = <<>>
    /\ agentCalls = 0
    /\ spans = <<>>
    /\ turn_mime_type = NoMime
    /\ disk = "moderated"
    /\ readLog = <<>>

SessionInit ==
    /\ session_id = "uuid4"
    /\ lastOutcome = "none"
    /\ conversation_span = NewSession
    /\ past_messages_state = <<>>
    /\ turnNo = 0

Init ==
    /\ SessionInit
    /\ TurnInit
    /\ gateIn = NoGateIn
    /\ gateOut = NoGateOut

\* Gradio calls chat_with_gemini(message, history, past_messages_state);
\* the function runs up to its loop.
StartTurn(m) ==
    /\ pc = "idle"
    /\ turnNo < MaxTurns
    /\ turnNo' = turnNo + 1
    /\ message' = m
    /\ past_messages' = past_messages_state
    /\ prompt_parts' = <<TextSegment(PromptHeader)>>
    /\ safety_message' = <<>>
    /\ k' = 1
    /\ j' = 1
    /\ ret' = NoRet
    /\ checkLog' = <<>>
    /\ reqLog' = <<>>
    /\ agentCalls' = 0
    /\ spans' = <<Span("chat_turn", TurnSpanParent, FALSE)>>
    /\ turn_mime_type' = NoMime
    /\ disk' = "moderated"
    /\ readLog' = <<>>
    /\ pc' = "loop"
    /\ UNCHANGED <<conversation_span, past_messages_state, gateIn, gateOut,
                   session_id, lastOutcome>>

InLoop == pc = "loop" /\ k <= Len(message.keys)
Key == message.keys[k]

TextChecked == Key = "text" /\ message.text # ""
FilesChecked == Key = "files" /\ message.files # <<>>

ShortCircuit_Never(is_safe) == FALSE

ShortCircuit(is_safe) == ~is_safe

AppendPart_Prepend(parts, segment) == <<segment>> \o parts

AppendPart(parts, segment) == Append(parts, segment)

Flagged(feedback) == <<FlaggedPrefix>> \o feedback

\* An item of message.items() that neither branch of the loop takes.
SkipItem ==
    /\ InLoop
    /\ ~TextChecked
    /\ ~FilesChecked
    /\ k' = k + 1
    /\ UNCHANGED <<conversation_span, past_messages_state, turnNo,
                   pc, message, past_messages, j, prompt_parts, safety_message,
                   ret, checkLog, reqLog, agentCalls, gateIn, gateOut,
                   session_id, spans, turn_mime_type, disk, readLog, lastOutcome>>

KeptFeedback_OnlyWhenBlocked(kept, v) == IF v.is_safe THEN kept ELSE v.feedback

\* is_safe, safety_message, _ = check_content_safety(...)
KeptFeedback(kept, v) == v.feedback

\* What a check leaves in the turn: its span, the logs, and the exception,
\* the blocked return or the feedback kept for later; a check that passed
\* leaves the turn at next_pc.
AfterCheck(part, v, resp, next_pc) ==
    /\ checkLog' = Append(checkLog, LogEntry(part, v, resp))
    /\ reqLog' = IF v.sent THEN Append(reqLog, part) ELSE reqLog
    /\ IF v.status = "raise"
       THEN /\ ret' = Raised(v.err)
            /\ pc' = "done"
            /\ spans' = CloseOnExit(Append(spans, Span("moderate", "chat_turn", TRUE)))
            /\ UNCHANGED safety_message
       ELSE IF ShortCircuit(v.is_safe)
       THEN /\ ret' = Returned(BlockedReply, past_messages, Flagged(v.feedback))
            /\ pc' = "done"
            /\ spans' = CloseOnExit(Append(spans, Span("moderate", "chat_turn", TRUE)))
            /\ safety_message' = KeptFeedback(safety_message, v)
       ELSE /\ UNCHANGED ret
            /\ pc' = next_pc
            /\ spans' = Append(spans, Span("moderate", "chat_turn", TRUE))
            /\ safety_message' = KeptFeedback(safety_message, v)

Continues(v) == v.status = "ok" /\ ~ShortCircuit(v.is_safe)

\* The text branch of the loop.
CheckText(resp) ==
    /\ InLoop
    /\ TextChecked
    /\ LET v == check_content_safety(message.text, NoFile, resp)
       IN  /\ AfterCheck(TextPart(message.text), v, resp, "loop")
           /\ IF Continues(v)
              THEN /\ prompt_parts' = AppendPart(prompt_parts, TextSegment(message.text))
                   /\ k' = k + 1
              ELSE UNCHANGED <<prompt_parts, k>>
    /\ UNCHANGED <<conversation_span, past_messages_state, turnNo,
                   message, past_messages, j, agentCalls, gateIn, gateOut,
                   session_id, turn_mime_type, disk, readLog, lastOutcome>>

\* The check of a file of the loop over the files: the file is read and
\* sent by check_content_safety.
CheckFile(resp) ==
    /\ InLoop
    /\ FilesChecked
    /\ LET file_path == message.files[j]
           v == check_content_safety(NoText, file_path, resp)
       IN  /\ AfterCheck(MediaPart(file_path), v, resp, "read")
           /\ turn_mime_type' = IF v.status = "ok" THEN v.mime_type ELSE turn_mime_type
    /\ disk' = "moderated"
    /\ UNCHANGED <<conversation_span, past_messages_state, turnNo,
                   message, past_messages, k, j, prompt_parts, agentCalls, gateIn, gateOut,
                   session_id, readLog, lastOutcome>>

\* Another process writes the file between its check and its second read.
ModifyFile ==
    /\ pc = "read"
    /\ disk = "moderated"
    /\ disk' = "rewritten"
    /\ UNCHANGED <<conversation_span, past_messages_state, turnNo,
                   pc, message, past_messages, k, j, prompt_parts, safety_message,
                   ret, checkLog, reqLog, agentCalls, gateIn, gateOut,
                   session_id, spans, turn_mime_type, readLog, lastOutcome>>

\* The file that passed is opened and read again, and its bytes are added
\* to the prompt under the media type of the check.
ReadFile ==
    /\ pc = "read"
    /\ LET file_path == message.files[j]
       IN  /\ prompt_parts' = AppendPart(prompt_parts, BinaryContent(file_path, turn_mime_type))
           /\ readLog' = Append(readLog, [file |-> file_path, data |-> disk])
    /\ IF j < Len(message.files)
       THEN j' = j + 1 /\ UNCHANGED k
       ELSE j' = 1 /\ k' = k + 1
    /\ pc' = "loop"
    /\ UNCHANGED <<conversation_span, past_messages_state, turnNo,
                   message, past_messages, safety_message, ret, checkLog, reqLog,
                   agentCalls, gateIn, gateOut,
                   session_id, spans, turn_mime_type, disk, lastOutcome>>

\* customer_agent.run is called and awaited.
CallAgent ==
    /\ pc = "loop"
    /\ k > Len(message.keys)
    /\ agentCalls' = agentCalls + 1
    /\ spans' = Append(spans, Span("llm_customer", "chat_turn", FALSE))
    /\ pc' = "await"
    /\ UNCHANGED <<conversation_span, past_messages_state, turnNo,
                   message, past_messages, k, j, prompt_parts, safety_message,
                   ret, checkLog, reqLog, gateIn, gateOut,
                   session_id, turn_mime_type, disk, readLog, lastOutcome>>

AllMessages_NoAppend(history, exchange) == history

\* result.all_messages(): the history given to run, then the new exchange.
AllMessages(history, exchange) == Append(history, exchange)

\* The awaited run returns or raises.
AgentReturn(ok) ==
    /\ pc = "await"
    /\ ret' = IF ok
              THEN Returned("reply",
                            AllMessages(past_messages, [turn |-> turnNo, reply |-> "reply"]),
                            safety_message)
              ELSE Raised("AgentError")
    /\ spans' = CloseOnExit(spans)
    /\ pc' = "done"
    /\ UNCHANGED <<conversation_span, past_messages_state, turnNo,
                   message, past_messages, k, j, prompt_parts, safety_message,
                   checkLog, reqLog, agentCalls, gateIn, gateOut,
                   session_id, turn_mime_type, disk, readLog, lastOutcome>>

StoredHistory_ClearedOnError(r, stored) ==
    IF r.status = "returned" THEN r.history ELSE <<>>

\* additional_outputs: the history a turn that returned hands back; a turn
\* that raised has no outputs and the stored history stays.
StoredHistory(r, stored) ==
    IF r.status = "returned" THEN r.history ELSE stored

\* How a turn ended.
Outcome(r, agent_calls) ==
    IF r.status = "raised"
    THEN IF agent_calls = 0 THEN "gating_failure" ELSE "agent_failure"
    ELSE IF r.reply = BlockedReply THEN "blocked" ELSE "completed"

\* The turn is over: Gradio stores the additional outputs of a turn that
\* returned, a turn that raised produces no outputs; the locals are gone.
\* The feedback returned (ret.feedback) goes to a Textbox that no code reads.
Deliver ==
    /\ pc = "done"
    /\ past_messages_state' = StoredHistory(ret, past_messages_state)
    /\ lastOutcome' = IF Outcome(ret, agentCalls) = "gating_failure"
                      THEN "gating_failure" ELSE "none"
    /\ spans' = <<>>
    /\ turn_mime_type' = NoMime
    /\ disk' = "moderated"
    /\ readLog' = <<>>
    /\ pc' = "idle"
    /\ message' = NoMessage
    /\ past_messages' = <<>>
    /\ k' = 1
    /\ j' = 1
    /\ prompt_parts' = <<>>
    /\ safety_message' = <<>>
    /\ ret' = NoRet
    /\ checkLog' = <<>>
    /\ reqLog' = <<>>
    /\ agentCalls' = 0
    /\ UNCHANGED <<conversation_span, turnNo, gateIn, gateOut, session_id>>

\* ChatSessionWithTracing.end_conversation
end_conversation ==
    /\ conversation_span.end_calls < MaxEnds
    /\ conversation_span' =
          IF ~conversation_span.isNone
          THEN [conversation_span EXCEPT !.end_calls = @ + 1]
          ELSE conversation_span
    /\ UNCHANGED <<past_messages_state, turnNo, gateIn, gateOut,
                   session_id, lastOutcome>>
    /\ UNCHANGED turnVars

Next ==
    \/ \E m \in Messages : StartTurn(m)
    \/ SkipItem
    \/ \E resp \in TurnResponses : CheckText(resp)
    \/ \E resp \in TurnResponses : CheckFile(resp)
    \/ ReadFile
    \/ CallAgent
    \/ \E ok \in BOOLEAN : AgentReturn(ok)
    \/ Deliver
    \/ end_conversation

Spec == Init /\ [][Next]_vars

\* The same program next to a process that writes the files it is given.
FileNext == Next \/ ModifyFile

FileSpec == Init /\ [][FileNext]_vars

----------------------------------------------------------------------------
(* A lone call of check_content_safety on every part and every response *)

GateParts == {TextPart(t) : t \in Texts \ {""}} \cup {MediaPart(f) : f \in Files}

GateInit ==
    /\ SessionInit
    /\ TurnInit
    /\ gateIn \in [part : GateParts, resp : GateResponses]
    /\ gateOut = NoGateOut

GateCall ==
    /\ gateOut.status = "none"
    /\ gateOut' = IF gateIn.part.kind = "text"
                  THEN check_content_safety(gateIn.part.text, NoFile, gateIn.resp)
                  ELSE check_content_safety(NoText, gateIn.part.file, gateIn.resp)
    /\ UNCHANGED <<conversation_span, past_messages_state, turnNo, gateIn,
                   session_id, lastOutcome>>
    /\ UNCHANGED turnVars

GateNext == GateCall

GateSpec == GateInit /\ [][GateNext]_vars

TypeOK ==
    /\ pc \in {"idle", "loop", "read", "await", "done"}
    /\ turnNo \in 0..MaxTurns
    /\ agentCalls \in 0..1
    /\ ret.status \in {"none", "returned", "raised"}

----------------------------------------------------------------------------
(* Properties *)

\* The parts of a message in their input order: the text when it is not
\* empty, and each file, in the order of the keys of the message.
Parts(m) ==
    LET texts == IF m.text # "" THEN <<TextPart(m.text)>> ELSE <<>>
        files == [i \in 1..Len(m.files) |-> MediaPart(m.files[i])]
    IN  IF m.keys[1] = "text" THEN texts \o files ELSE files \o texts

\* The prompt segment of a part: a text segment, or a binary segment tagged
\* with the media type the file was classified as.
SegmentOf(part) ==
    IF part.kind = "text" THEN TextSegment(part.text)
    ELSE BinaryContent(part.file, part.file.mime)

Blocked == ret.status = "returned" /\ ret.reply = BlockedReply
Classified(part) == part.kind = "media" /\ part.file.mime # NoMime
Supported(part) == Classified(part) /\ Head(part.file.mime) \in DOMAIN MODERATION_CONFIG

\* C1: the agent is invoked only when every non-empty text and every file of
\* the message was passed to check_content_safety and every check returned
\* is_safe = true; once a check returned is_safe = false the turn has ended
\* Blocked and the agent was not invoked.
C1_AgentOnlyAfterAllSafe ==
    /\ agentCalls > 0 =>
          /\ Len(checkLog) = Len(Parts(message))
          /\ \A i \in DOMAIN checkLog :
                checkLog[i].part = Parts(message)[i] /\ checkLog[i].verdict = "safe"
    /\ (\E i \in DOMAIN checkLog : checkLog[i].verdict = "unsafe") =>
          agentCalls = 0 /\ pc = "done" /\ Blocked

C1_Witness ==
    agentCalls > 0 /\ Len(checkLog) = 3 /\ message.text # ""

\* C2: when the i-th part is the first unsafe one, exactly i remote requests
\* were made in the turn: one for each of the first i parts, in order, and
\* none for a later part.
C2_ShortCircuitCount ==
    \A i \in DOMAIN checkLog :
        checkLog[i].verdict = "unsafe" =>
            /\ i = Len(checkLog)
            /\ \A h \in 1..(i - 1) : checkLog[h].verdict = "safe"
            /\ Len(reqLog) = i
            /\ \A h \in 1..i :
                  reqLog[h] = Parts(message)[h] /\ checkLog[h].part = Parts(message)[h]

C2_Witness ==
    /\ pc = "done"
    /\ Len(Parts(message)) = 3
    /\ Len(checkLog) = 2
    /\ checkLog[1].part.kind = "media" /\ Head(checkLog[1].part.file.mime) = "video"
    /\ checkLog[2].part.kind = "media" /\ Head(checkLog[2].part.file.mime) = "audio"
    /\ checkLog[2].verdict = "unsafe"
    /\ Len(reqLog) = 2

\* A part the helpers take up to the request, and a response that is a JSON
\* object with a rationale and every flag configured for the part's type.
Gateable(part) ==
    part.kind = "text" \/ (Supported(part) /\ part.file.size <= MAX_FILE_SIZE_BYTES)
Complete(part, resp) ==
    /\ resp.kind = "ok"
    /\ resp.rationale
    /\ \A f \in ConfiguredFlags(part) : resp.flags[f] # "-"

\* C3: for every content type and every truth assignment to its configured
\* flags, check_content_safety returns is_safe = false exactly when one of
\* the configured flags is true, whatever the other flags of the result are.
C3_UnsafeIffAnyConfiguredFlag ==
    (gateOut.status # "none" /\ Gateable(gateIn.part) /\ Complete(gateIn.part, gateIn.resp)) =>
        /\ gateOut.status = "ok"
        /\ ~gateOut.is_safe <=>
              \E f \in ConfiguredFlags(gateIn.part) : gateIn.resp.flags[f] = "T"

C3_Witness ==
    /\ gateOut.status = "ok"
    /\ ~gateOut.is_safe
    /\ gateIn.part.kind = "media" /\ Head(gateIn.part.file.mime) = "image"
    /\ gateIn.resp.flags["contains_pii"] = "F"
    /\ gateIn.resp.flags["is_disturbing"] = "F"
    /\ gateIn.resp.flags["is_low_quality"] = "T"
    /\ gateIn.resp.flags["is_unfriendly"] = "-"
    /\ gateIn.resp.flags["is_unprofessional"] = "T"

\* C4: a check whose remote request failed (no response, non-success status,
\* body that is not JSON, or an object without the rationale or without a
\* configured flag) raises: the turn ends with the error and the agent is
\* not invoked.
C4_FailedRequestRaises ==
    \A i \in DOMAIN checkLog :
        checkLog[i].answer \in {"neterr", "http_error", "badjson", "no_rationale", "no_flag"} =>
            /\ checkLog[i].verdict = "raised"
            /\ pc = "done" /\ ret.status = "raised"
            /\ agentCalls = 0

\* C5: a turn that was forwarded and whose agent call succeeded hands back
\* its input history extended by exactly one exchange, a blocked turn hands
\* back its input history, and the session history becomes that value; a
\* turn that raised, and every step that does not end a turn, leaves the
\* session history as it was.
C5_HistoryPerTurn ==
    [][IF pc = "done" /\ pc' = "idle"
       THEN /\ past_messages = past_messages_state
            /\ (ret.status = "returned" /\ ~Blocked) =>
                  /\ agentCalls = 1
                  /\ Len(ret.history) = Len(past_messages) + 1
                  /\ SubSeq(ret.history, 1, Len(past_messages)) = past_messages
                  /\ past_messages_state' = ret.history
            /\ Blocked =>
                  /\ ret.history = past_messages
                  /\ past_messages_state' = past_messages_state
            /\ ret.status = "raised" => past_messages_state' = past_messages_state
       ELSE past_messages_state' = past_messages_state]_vars

C5_Witness ==
    pc = "done" /\ ret.status = "returned" /\ ~Blocked /\ Len(ret.history) = 2

RECURSIVE SegmentsOf(_)
SegmentsOf(parts) ==
    IF parts = <<>> THEN <<>>
    ELSE <<SegmentOf(Head(parts))>> \o SegmentsOf(Tail(parts))

\* C6 as stated: the segments of the prompt passed to the agent are the
\* parts of the message in their input order.
C6_PromptEqualsParts ==
    agentCalls > 0 => prompt_parts = SegmentsOf(Parts(message))

\* C6: the prompt passed to the agent is the header segment followed by the
\* parts of the message in their input order, a text part as a text segment
\* and a media part as a binary segment tagged with its classified type;
\* no part is dropped, duplicated or reordered.
C6_PromptIsHeaderThenParts ==
    agentCalls > 0 =>
        prompt_parts = <<TextSegment(PromptHeader)>> \o SegmentsOf(Parts(message))

C6_Witness ==
    /\ agentCalls > 0
    /\ message.keys[1] = "files"
    /\ Len(prompt_parts) = 4
    /\ prompt_parts[2].media_type # prompt_parts[3].media_type
    /\ prompt_parts[4].kind = "text"

TooLarge(part) == Classified(part) /\ part.file.size > MAX_FILE_SIZE_BYTES

\* C7: a media part larger than the limit ends the turn Blocked: the turn
\* returns the blocked response with a feedback, it does not raise.
C7_OversizeBlocks ==
    \A i \in DOMAIN checkLog :
        TooLarge(checkLog[i].part) => (pc = "done" /\ Blocked /\ ret.feedback # <<>>)

C9_EmptyMessageFails ==
    (pc # "idle" /\ Parts(message) = <<>>) =>
        /\ agentCalls = 0
        /\ pc = "done" => ret.status = "raised"

\* C10: the root span receives end() once, whatever the number of
\* end_conversation calls.
C10_RootSpanEndedOnce ==
    conversation_span.end_calls <= 1

\* C11: every turn opens exactly one chat_turn span, and its parent is the
\* root conversation span of the session, however the turn ends.
C11_OneTurnSpanUnderRoot ==
    pc # "idle" =>
        /\ Cardinality({i \in DOMAIN spans : spans[i].name = "chat_turn"}) = 1
        /\ spans[1].name = "chat_turn"
        /\ spans[1].parent = RootSpan

C11_Witness ==
    /\ pc = "done"
    /\ ret.status = "raised"
    /\ agentCalls = 0
    /\ spans[1].name = "chat_turn" /\ spans[1].parent = RootSpan
    /\ turnNo = 2

\* C13: no step of a turn changes session_id or the root span, the history
\* changes only when a turn that returned is delivered, so a turn that
\* failed in gating leaves the three as they were; and in the turn that
\* follows a gating failure an agent call that succeeds completes the turn
\* with the history extended by one exchange.
C13_FailedGatingKeepsSession ==
    [][/\ turnVars' # turnVars =>
             /\ session_id' = session_id
             /\ conversation_span' = conversation_span
             /\ past_messages_state' # past_messages_state =>
                   (pc = "done" /\ ret.status = "returned")
       /\ (pc = "done" /\ pc' = "idle" /\ Outcome(ret, agentCalls) = "gating_failure") =>
             /\ past_messages_state' = past_messages_state
             /\ lastOutcome' = "gating_failure"
       /\ (lastOutcome = "gating_failure" /\ pc = "await" /\ ret'.status = "returned") =>
             /\ Outcome(ret', agentCalls') = "completed"
             /\ ret'.history = Append(past_messages_state, ret'.history[Len(ret'.history)])
      ]_vars

C13_Witness ==
    /\ lastOutcome = "gating_failure"
    /\ pc = "done"
    /\ Outcome(ret, agentCalls) = "completed"
    /\ Len(checkLog) >= 2
    /\ conversation_span.end_calls = 0

\* C14: the feedback of a check is the rationale; for an audio part whose
\* result has a transcription it is 'Transcription: "<transcription>"', a
\* blank line and the rationale.
C14_FeedbackAssembly ==
    gateOut.status = "ok" =>
        gateOut.feedback =
            IF /\ gateIn.part.kind = "media"
               /\ Head(gateIn.part.file.mime) = "audio"
               /\ gateIn.resp.transcription
            THEN <<"Transcription: \"", "transcription", "\"", "\n\n", "rationale">>
            ELSE <<"rationale">>

C14_Witness ==
    /\ gateOut.status = "ok"
    /\ gateIn.part.kind = "media"
    /\ Head(gateIn.part.file.mime) = "audio"
    /\ gateIn.resp.transcription
    /\ Len(gateOut.feedback) = 5

\* C15: the parts whose check has started are a prefix of the parts of the
\* message, in order, and every check but the last one returned
\* is_safe = true.
C15_SequentialGating ==
    /\ Len(checkLog) <= Len(Parts(message))
    /\ \A i \in DOMAIN checkLog : checkLog[i].part = Parts(message)[i]
    /\ \A i \in 1..(Len(checkLog) - 1) : checkLog[i].verdict = "safe"

C15_Witness ==
    /\ pc = "loop"
    /\ Len(checkLog) = 2
    /\ Len(Parts(message)) = 3
    /\ message.keys[1] = "files"

Completed == pc = "done" /\ ret.status = "returned" /\ ~Blocked

LastFeedback ==
    IF checkLog = <<>> THEN <<>> ELSE checkLog[Len(checkLog)].feedback

ScenarioA ==
    Completed /\ Len(checkLog) = 1 /\ checkLog[1].part.kind = "text" /\ message.files = <<>>

\* C16 as stated: a completed turn returns the agent's reply and the
\* feedback of the last part gated, empty when no part was gated, and empty
\* for the single safe text of scenario A.
C16_ScenarioAFeedbackEmpty ==
    Completed =>
        /\ ret.reply = "reply"
        /\ ret.feedback = LastFeedback
        /\ ScenarioA => ret.feedback = <<>>

\* C16: a completed turn returns the agent's reply and the feedback of the
\* last part gated, empty when no part was gated; for the single safe text
\* of scenario A it is the rationale of the text's check.
C16_ReturnsLastPartFeedback ==
    Completed =>
        /\ ret.reply = "reply"
        /\ ret.feedback = LastFeedback
        /\ ScenarioA => ret.feedback = <<"rationale">>

C16_Witness ==
    ScenarioA /\ ret.feedback = <<"rationale">>

Unsupported(part) == Classified(part) /\ ~Supported(part)

C18_SpanDiscipline ==
    pc # "idle" =>
        /\ Len(spans) = 1 + Len(checkLog) + agentCalls
        /\ Cardinality({i \in DOMAIN spans : spans[i].name = "moderate"}) = Len(checkLog)
        /\ \A i \in DOMAIN spans :
              /\ spans[i].name = "moderate" => (spans[i].parent = "chat_turn" /\ spans[i].ended)
              /\ spans[i].name = "llm_customer" => spans[i].parent = "chat_turn"
              /\ pc = "done" => spans[i].ended

C18_Witness ==
    /\ pc = "done"
    /\ ret.status = "raised"
    /\ agentCalls = 1
    /\ Len(spans) = 4
    /\ \A i \in DOMAIN spans : spans[i].ended

\* C19: a turn is in progress only while the root span has not been ended.
C19_TurnImpliesRootOpen ==
    pc # "idle" => conversation_span.end_calls = 0

\* C20: the bytes of every file in the prompt passed to the agent are the
\* bytes that were sent to its check.
C20_PromptBytesAreModeratedBytes ==
    agentCalls > 0 => \A i \in DOMAIN readLog : readLog[i].data = "moderated"

====
